---- MODULE Spec2Model ----
(***************************************************************************)
(* A model of uv-development-toggle (src/uv_development_toggle/__init__.py) *)
(*                                                                         *)
(* Text is modelled in two ways.                                           *)
(*  - A URL, a path, a package name, a branch name or an account name is a *)
(*    sequence of atoms.  An atom is a string that the program never looks *)
(*    inside: the literals it searches for ("github.com", "/blob/",        *)
(*    "/tree/", ".git", "/", "_", "-") are atoms of their own, so that     *)
(*    `lit in s`, s.endswith(lit), s.replace(a, b) and the regular         *)
(*    expression of check_github_repo_is_python_package are computed on    *)
(*    the sequence.  The empty sequence is the empty string, and also      *)
(*    Python's None wherever the program only tests truthiness.            *)
(*  - A project-URL key is a sequence of single characters, so that        *)
(*    strip() and lower() are computed character by character.             *)
(***************************************************************************)
EXTENDS Naturals, Sequences, FiniteSets, TLC

VARIABLES
    \* ---- the world around the program
    config_exists,    \* pyproject.toml exists in the working directory
    sources,          \* [tool.uv.sources] of pyproject.toml on disk: sequence of [name, src]
    fs,               \* the local checkout directories that exist on disk (paths)
    env_toggle_dir,   \* environment variable PYTHON_DEVELOPMENT_TOGGLE (<<>> = unset)
    \* ---- one invocation of toggle_module_source
    pc,               \* position in the invocation
    module_name, force_local, force_published, force_pypi,
    current_source,   \* sources.get(module_name, {}) read at load time
    local_path, local_exists, current_branch,
    username,         \* get_github_username()
    user_outcome,     \* what the account-derived candidate came to
    pypi_outcome,     \* what the index-derived candidate came to
    pypi_url,         \* the index-derived candidate, when the homepage names the platform
    pypi_data, pypi_homepage,  \* argument and result of a call of get_pypi_homepage
    github_url, repo_valid,
    new_source,
    events,           \* what the invocation did, in order
    exit_code,        \* 0, or 1 after sys.exit(1) or an uncaught exception
    \* ---- history of the previous invocation (for claims about repeated toggles)
    rerun,            \* [same, github_url]: does this run repeat the one before it
    \* ---- the command line and the loop of main / find_and_update_editable_sources
    cli               \* [args, mode, stage, queue, found, calls, out]

world_vars == <<config_exists, sources, fs, env_toggle_dir>>
call_vars == <<module_name, force_local, force_published, force_pypi, current_source>>
local_vars == <<local_path, local_exists, current_branch>>
lookup_vars == <<username, user_outcome, pypi_outcome, pypi_url>>
homepage_vars == <<pypi_data, pypi_homepage>>
url_vars == <<github_url, repo_valid>>
vars == <<world_vars, pc, call_vars, local_vars, lookup_vars, homepage_vars, url_vars,
          new_source, events, exit_code, rerun, cli>>

(***************************************************************************)
(* Bounds of the model.                                                    *)
(***************************************************************************)
\* the largest number of project_urls entries of a package-index record
MaxProjectUrls == 2

(***************************************************************************)
(* Text helpers.                                                           *)
(***************************************************************************)
\* `lit in s` for a literal that is an atom
Contains(s, lit) == \E i \in 1..Len(s) : s[i] = lit

\* s.endswith(lit)
EndsWith(s, lit) == Len(s) > 0 /\ s[Len(s)] = lit

\* s.replace(a, b) for single atoms a and b
Replace(s, a, b) == [i \in 1..Len(s) |-> IF s[i] = a THEN b ELSE s[i]]

UpperCase == <<"A","B","C","D","E","F","G","H","I","J","K","L","M",
               "N","O","P","Q","R","S","T","U","V","W","X","Y","Z">>
LowerCase == <<"a","b","c","d","e","f","g","h","i","j","k","l","m",
               "n","o","p","q","r","s","t","u","v","w","x","y","z">>

\* str.lower() on one character
LowerChar(c) ==
    IF \E i \in 1..Len(UpperCase) : UpperCase[i] = c
    THEN LowerCase[CHOOSE i \in 1..Len(UpperCase) : UpperCase[i] = c]
    ELSE c

\* str.lower()
Lower(s) == [i \in 1..Len(s) |-> LowerChar(s[i])]

\* str.strip(): drops the leading and the trailing blanks
RECURSIVE LStrip(_)
LStrip(s) == IF Len(s) > 0 /\ s[1] = " " THEN LStrip(Tail(s)) ELSE s
RECURSIVE RStrip(_)
RStrip(s) == IF Len(s) > 0 /\ s[Len(s)] = " " THEN RStrip(SubSeq(s, 1, Len(s) - 1)) ELSE s
Strip(s) == RStrip(LStrip(s))

(***************************************************************************)
(* Index client: get_pypi_homepage and its helpers.                        *)
(***************************************************************************)
\* is_repository_url(url), with the file-view test left out (a mutant)
is_repository_url_any_github(url) == Contains(url, "github.com")

\* is_repository_url(url)
is_repository_url(url) ==
    IF ~Contains(url, "github.com")
    THEN FALSE
    ELSE ~Contains(url, "/blob/") /\ ~Contains(url, "/tree/")

\* normalize_project_url_key without lower() (a mutant)
normalize_project_url_key_strip_only(key) == Strip(key)

\* normalize_project_url_key(key)
normalize_project_url_key(key) == Lower(Strip(key))

\* dict assignment d[k] = v on an insertion-ordered dict (sequence of <<k, v>>):
\* an existing key keeps its position and takes the new value
DictSet(d, k, v) ==
    IF \E i \in 1..Len(d) : d[i][1] = k
    THEN [i \in 1..Len(d) |-> IF d[i][1] = k THEN <<k, v>> ELSE d[i]]
    ELSE Append(d, <<k, v>>)

\* d.get(k, "")
DictGet(d, k) ==
    IF \E i \in 1..Len(d) : d[i][1] = k
    THEN d[CHOOSE i \in 1..Len(d) : d[i][1] = k][2]
    ELSE <<>>

\* {normalize_project_url_key(key): url for key, url in project_urls.items()}
RECURSIVE NormalizedUrlsFrom(_, _)
NormalizedUrlsFrom(project_urls, acc) ==
    IF project_urls = <<>>
    THEN acc
    ELSE NormalizedUrlsFrom(Tail(project_urls),
             DictSet(acc, normalize_project_url_key(Head(project_urls)[1]),
                     Head(project_urls)[2]))
normalized_urls(project_urls) == NormalizedUrlsFrom(project_urls, <<>>)

k_repository == <<"r","e","p","o","s","i","t","o","r","y">>
k_source == <<"s","o","u","r","c","e">>
k_source_code == <<"s","o","u","r","c","e"," ","c","o","d","e">>
k_changelog == <<"c","h","a","n","g","e","l","o","g">>
k_documentation == <<"d","o","c","u","m","e","n","t","a","t","i","o","n">>
k_docs == <<"d","o","c","s">>
k_issues == <<"i","s","s","u","e","s">>
k_bug_tracker == <<"b","u","g"," ","t","r","a","c","k","e","r">>
k_bugtracker == <<"b","u","g","t","r","a","c","k","e","r">>

\* priority_keys, with "source" tried before "repository" (a mutant)
priority_keys_source_first == <<k_source, k_repository, k_source_code>>

priority_keys == <<k_repository, k_source, k_source_code>>

skip_keys == {k_changelog, k_documentation, k_docs, k_issues, k_bug_tracker, k_bugtracker}

\* for key in priority_keys: the first key whose URL is a repository URL, from index i on
RECURSIVE PriorityLoop(_, _)
PriorityLoop(nurls, i) ==
    IF i > Len(priority_keys)
    THEN <<>>
    ELSE LET url == DictGet(nurls, priority_keys[i])
         IN  IF url # <<>> /\ is_repository_url(url)
             THEN url
             ELSE PriorityLoop(nurls, i + 1)

\* for key, url in normalized_urls.items(): skipping skip_keys, the first repository URL
RECURSIVE NonSkippedLoop(_, _)
NonSkippedLoop(nurls, i) ==
    IF i > Len(nurls)
    THEN <<>>
    ELSE IF nurls[i][1] \in skip_keys
         THEN NonSkippedLoop(nurls, i + 1)
         ELSE IF nurls[i][2] # <<>> /\ is_repository_url(nurls[i][2])
              THEN nurls[i][2]
              ELSE NonSkippedLoop(nurls, i + 1)

\* the last loop of get_pypi_homepage, passing over the keys of skip_keys (a mutant)
RECURSIVE AnyGithubLoopSkipKeys(_, _)
AnyGithubLoopSkipKeys(nurls, i) ==
    IF i > Len(nurls) THEN <<>>
    ELSE IF nurls[i][1] \notin skip_keys /\ nurls[i][2] # <<>>
            /\ Contains(nurls[i][2], "github.com")
         THEN nurls[i][2]
         ELSE AnyGithubLoopSkipKeys(nurls, i + 1)

\* for url in normalized_urls.values(): the first URL that contains "github.com"
RECURSIVE AnyGithubLoop(_, _)
AnyGithubLoop(nurls, i) ==
    IF i > Len(nurls)
    THEN <<>>
    ELSE IF nurls[i][2] # <<>> /\ Contains(nurls[i][2], "github.com")
         THEN nurls[i][2]
         ELSE AnyGithubLoop(nurls, i + 1)

\* get_pypi_homepage, given the answer of get_pypi_info:
\* data = [fetched, home_page, project_urls]; a failed fetch is {} and has neither field
get_pypi_homepage(data) ==
    LET homepage == IF data.fetched THEN data.home_page ELSE <<>>
        project_urls == IF data.fetched THEN data.project_urls ELSE <<>>
        nurls == normalized_urls(project_urls)
        by_priority == PriorityLoop(nurls, 1)
        by_other == NonSkippedLoop(nurls, 1)
        by_github == AnyGithubLoop(nurls, 1)
    IN  IF homepage # <<>> /\ is_repository_url(homepage) THEN homepage
        ELSE IF by_priority # <<>> THEN by_priority
        ELSE IF by_other # <<>> THEN by_other
        ELSE IF by_github # <<>> THEN by_github
        ELSE homepage

(***************************************************************************)
(* Repository prober: check_github_repo_is_python_package.                 *)
(***************************************************************************)
\* atoms that contain a "/", and atoms that contain a "."
SlashAtoms == {"/", "/blob/", "/tree/", "https://", "http://"}
DotAtoms == {".", ".git", "github.com", "example.com"}

\* the length of the longest run of atoms of s, from position i on, none of them in stop
RECURSIVE RunLength(_, _, _)
RunLength(s, i, stop) ==
    IF i > Len(s) \/ s[i] \in stop THEN 0 ELSE 1 + RunLength(s, i + 1, stop)

\* re.match(r"https?://github\.com/([^/]+)/([^/.]+)(\.git)?", github_url):
\* anchored at the start only; [matched, username, repo]
ParseGithubUrl(url) ==
    LET head_ok == /\ Len(url) >= 3
                   /\ url[1] \in {"https://", "http://"}
                   /\ url[2] = "github.com"
                   /\ url[3] = "/"
        ulen == IF head_ok THEN RunLength(url, 4, SlashAtoms) ELSE 0
        sep == 4 + ulen
        sep_ok == head_ok /\ ulen > 0 /\ sep <= Len(url) /\ url[sep] \in {"/", "/blob/", "/tree/"}
        rlen == IF sep_ok /\ url[sep] = "/"
                THEN RunLength(url, sep + 1, SlashAtoms \cup DotAtoms)
                ELSE 0
        no_match == [matched |-> FALSE, username |-> <<>>, repo |-> <<>>]
    IN  IF ~sep_ok THEN no_match
        ELSE IF url[sep] = "/blob/"
             THEN [matched |-> TRUE, username |-> SubSeq(url, 4, sep - 1), repo |-> <<"blob">>]
        ELSE IF url[sep] = "/tree/"
             THEN [matched |-> TRUE, username |-> SubSeq(url, 4, sep - 1), repo |-> <<"tree">>]
        ELSE IF rlen = 0 THEN no_match
        ELSE [matched |-> TRUE, username |-> SubSeq(url, 4, sep - 1),
              repo |-> SubSeq(url, sep + 1, sep + rlen)]

\* indicators = ["pyproject.toml", "setup.py", "setup.cfg"]
indicators == <<"pyproject.toml", "setup.py", "setup.cfg">>

\* the answers the hosting platform's contents API can give to one HEAD request
Responses == {"ok", "404", "http_error", "url_error"}

\* the answers to the requests of one call, in the order the requests are made
ProbeAnswers == [1..Len(indicators) -> Responses]

\* for fname in indicators, from index i on, with a non-404 HTTP error ending the
\* loop (a mutant: the behaviour of git_utils.py, which toggle does not call)
RECURSIVE IndicatorLoopStrict(_, _)
IndicatorLoopStrict(answers, i) ==
    IF i > Len(indicators) THEN [found |-> FALSE, probes |-> i - 1]
    ELSE IF answers[i] = "ok" THEN [found |-> TRUE, probes |-> i]
    ELSE IF answers[i] = "404" THEN IndicatorLoopStrict(answers, i + 1)
    ELSE [found |-> FALSE, probes |-> i]

\* for fname in indicators, from index i on: [found, probes issued]
RECURSIVE IndicatorLoop(_, _)
IndicatorLoop(answers, i) ==
    IF i > Len(indicators) THEN [found |-> FALSE, probes |-> i - 1]
    ELSE IF answers[i] = "ok" THEN [found |-> TRUE, probes |-> i]
    ELSE IF answers[i] \in {"404", "http_error"} THEN IndicatorLoop(answers, i + 1)
    ELSE [found |-> FALSE, probes |-> i]

\* check_github_repo_is_python_package(github_url), given the API's answers
check_github_repo_is_python_package(url, answers) ==
    IF ~ParseGithubUrl(url).matched
    THEN FALSE
    ELSE IndicatorLoop(answers, 1).found

(***************************************************************************)
(* Local checkout resolver.                                                *)
(***************************************************************************)
\* os.environ.get("PYTHON_DEVELOPMENT_TOGGLE", "pypi")
dev_toggle_dir(env) == IF env = <<>> THEN <<"pypi">> ELSE env

\* Path(f"{dev_toggle_dir}/{name}")
PathOf(dir, name) == dir \o <<"/">> \o name

\* the default path, the package name normalised to hyphens (a mutant)
local_path_default_dash(dir, m) == PathOf(dir, Replace(m, "_", "-"))

\* local_path_default, local_path_dash, local_path_underscore
local_path_default(dir, m) == PathOf(dir, m)

local_path_dash(dir, m) == PathOf(dir, Replace(m, "_", "-"))

local_path_underscore(dir, m) == PathOf(dir, Replace(m, "-", "_"))

\* the if/elif chain choosing local_path, with the hyphen variant tried first (a mutant)
resolve_local_path_dash_first(dir, m, disk) ==
    IF local_path_dash(dir, m) \in disk THEN local_path_dash(dir, m)
    ELSE IF local_path_default(dir, m) \in disk THEN local_path_default(dir, m)
    ELSE IF local_path_underscore(dir, m) \in disk THEN local_path_underscore(dir, m)
    ELSE local_path_default(dir, m)

\* the if/elif chain choosing local_path
resolve_local_path(dir, m, disk) ==
    IF local_path_default(dir, m) \in disk THEN local_path_default(dir, m)
    ELSE IF local_path_dash(dir, m) \in disk THEN local_path_dash(dir, m)
    ELSE IF local_path_underscore(dir, m) \in disk THEN local_path_underscore(dir, m)
    ELSE local_path_default(dir, m)

\* current_branch = None if current_branch in ("master", "main"), master forgotten (a mutant)
normalize_branch_main_only(branch) ==
    IF branch = <<"main">> THEN <<>> ELSE branch

\* if current_branch in ("master", "main"): current_branch = None
normalize_branch(branch) ==
    IF branch \in {<<"master">>, <<"main">>} THEN <<>> ELSE branch

(***************************************************************************)
(* The sources table: an insertion-ordered mapping, a sequence of          *)
(* <<package name, source entry>>.  A source entry is a record whose       *)
(* fields are the keys of the TOML inline table.                           *)
(***************************************************************************)
\* {} : the entry of a package that has none
EmptySource == [k \in {} |-> TRUE]

\* module_name in sources
sources_has(srcs, m) == \E i \in 1..Len(srcs) : srcs[i][1] = m

\* sources.get(module_name, {})
sources_get(srcs, m) ==
    IF sources_has(srcs, m)
    THEN srcs[CHOOSE i \in 1..Len(srcs) : srcs[i][1] = m][2]
    ELSE EmptySource

\* del sources[module_name], the deletion forgotten (a mutant)
sources_del_noop(srcs, m) == srcs

\* del sources[module_name], deleting every entry (a mutant)
sources_del_all(srcs, m) == <<>>

\* del sources[module_name]
sources_del(srcs, m) == SelectSeq(srcs, LAMBDA e : e[1] # m)

\* sources[module_name] = new_source, always appended as a new entry (a mutant)
sources_set_append(srcs, m, new) == Append(srcs, <<m, new>>)

\* sources[module_name] = new_source, the fields of the old entry that the new one
\* does not have being kept (a mutant)
sources_set_merge(srcs, m, new) ==
    DictSet(srcs, m,
            [k \in DOMAIN sources_get(srcs, m) \cup DOMAIN new |->
                 IF k \in DOMAIN new THEN new[k] ELSE sources_get(srcs, m)[k]])

\* sources[module_name] = new_source
sources_set(srcs, m, new) == DictSet(srcs, m, new)

\* published_source, the revision always written (a mutant)
published_source_always_rev(url, branch) == [git |-> url, rev |-> branch]

\* published_source = {"git": github_url, "rev": current_branch} if current_branch
\*                    else {"git": github_url}
published_source(url, branch) ==
    IF branch # <<>> THEN [git |-> url, rev |-> branch] ELSE [git |-> url]

\* local_source = {"path": str(local_path), "editable": True}
local_source(path) == [path |-> path, editable |-> TRUE]

\* the condition of line 355, force_published taking precedence (a mutant)
choose_local_published_wins(fl, fp, cur) ==
    ~fp /\ (fl \/ "git" \in DOMAIN cur)

\* the condition of line 355, an existing entry of any kind toggling to local (a mutant)
choose_local_any_entry(fl, fp, cur) ==
    fl \/ (~fp /\ DOMAIN cur # {})

\* force_local or (not force_published and "git" in current_source)
choose_local(fl, fp, cur) ==
    fl \/ (~fp /\ "git" \in DOMAIN cur)

(***************************************************************************)
(* The inputs of the model.                                                *)
(***************************************************************************)
\* package names: one with an underscore and a hyphen, whose three candidate
\* checkout paths are distinct, and one without separators
PkgMixed == <<"a", "_", "b", "-", "c">>
PkgDemo == <<"demo">>
Packages == {PkgMixed, PkgDemo}

\* the packages the command line names in the single-package runs
ToggledPackages == {PkgMixed}

\* values of PYTHON_DEVELOPMENT_TOGGLE: unset, or a directory
ToggleDirs == {<<>>, <<"dev">>}

\* what `git rev-parse --abbrev-ref HEAD` prints (nothing outside a working copy)
Branches == {<<"main">>, <<"master">>, <<"feature">>, <<>>}

\* what get_github_username returns (<<>>: None, no account name found)
Usernames == {<<>>, <<"alice">>}

\* what uv_update_package meets: uv succeeds, uv fails, uv is not installed
UvResults == {"ok", "failed", "missing"}

\* the answers of the contents API to the requests of one shape check
ProbeScenarios ==
    { <<"ok", "ok", "ok">>,
      <<"404", "ok", "ok">>,
      <<"404", "404", "404">>,
      <<"http_error", "ok", "404">>,
      <<"url_error", "ok", "ok">> }

\* f"https://github.com/{username}/{module_name}.git"
AccountUrl(u, m) == <<"https://", "github.com", "/">> \o u \o <<"/">> \o m \o <<".git">>

u_repo == <<"https://", "github.com", "/", "acme", "/", "demo">>
u_repo_git == <<"https://", "github.com", "/", "acme", "/", "demo", ".git">>
u_other_repo == <<"https://", "github.com", "/", "acme", "/", "other">>
u_blob == <<"https://", "github.com", "/", "acme", "/", "demo", "/blob/", "main", "/", "CHANGELOG.md">>
u_tree == <<"https://", "github.com", "/", "acme", "/", "demo", "/tree/", "main", "/", "docs">>
u_org == <<"https://", "github.com", "/", "acme">>
u_plain == <<"https://", "example.com">>

\* the three candidate checkout paths of package m under dir
CandidatePaths(dir, m) ==
    {local_path_default(dir, m), local_path_dash(dir, m), local_path_underscore(dir, m)}

\* the entries a configuration file can hold for package m before the tool runs
InitEntries(dir, m) ==
    IF m \in ToggledPackages
    THEN { local_source(PathOf(dir, m)),
           [path |-> PathOf(dir, m)],
           [git |-> AccountUrl(<<"alice">>, m)],
           [git |-> AccountUrl(<<"alice">>, m), rev |-> <<"feature">>] }
    ELSE { local_source(PathOf(dir, m)),
           [git |-> AccountUrl(<<"alice">>, m)] }

\* the sources tables a configuration file can hold: distinct keys, in any order
InitSources(dir) ==
    {<<>>}
    \cup {<<<<m, e>>>> : m \in Packages, e \in UNION {InitEntries(dir, x) : x \in Packages}}
    \cup {<<<<m1, e1>>, <<m2, e2>>>> :
             m1 \in Packages, m2 \in Packages,
             e1 \in UNION {InitEntries(dir, x) : x \in Packages},
             e2 \in UNION {InitEntries(dir, x) : x \in Packages}}

\* a failed get_pypi_info: {}
NoData == [fetched |-> FALSE, home_page |-> <<>>, project_urls |-> <<>>]

\* the package-index records the toggle meets
TogglePypiData ==
    { NoData,
      [fetched |-> TRUE, home_page |-> u_repo, project_urls |-> <<>>],
      [fetched |-> TRUE, home_page |-> u_plain, project_urls |-> <<>>],
      [fetched |-> TRUE, home_page |-> u_plain,
       project_urls |-> <<<<<<"S","o","u","r","c","e">>, u_repo_git>>>>],
      [fetched |-> TRUE, home_page |-> u_org, project_urls |-> <<>>] }

(***************************************************************************)
(* The decisions of toggle_module_source, as functions of what it looked   *)
(* up.                                                                     *)
(***************************************************************************)
\* lines 312-316: the account-derived URL, used when the account name is known, the
\* repository exists and the shape check of the candidate passed (None otherwise)
resolve_user_url(u, m, exists, shape_ok) ==
    IF u # <<>> /\ exists /\ shape_ok THEN AccountUrl(u, m) ELSE <<>>

\* lines 321-323: pypi_url, the homepage with ".git" appended unless it ends with it
pypi_candidate_url(homepage) ==
    IF ~EndsWith(homepage, ".git") THEN homepage \o <<".git">> ELSE homepage

\* lines 319-326, the index-derived URL used without its shape check (a mutant)
resolve_pypi_url_unchecked(homepage, shape_ok) ==
    IF Contains(homepage, "github.com") THEN pypi_candidate_url(homepage) ELSE <<>>

\* lines 319-326 and 329-336: the index-derived URL, used when the homepage names the
\* platform and the shape check of the candidate passed (None otherwise)
resolve_pypi_url(homepage, shape_ok) ==
    IF Contains(homepage, "github.com") /\ shape_ok
    THEN pypi_candidate_url(homepage)
    ELSE <<>>

\* lines 338-340, the check forgotten (a mutant)
no_source_never(url, exists) == FALSE

\* lines 338-340: not github_url, and not local_path.exists()
no_source(url, exists) == url = <<>> /\ ~exists

\* line 357, the clone made whether or not the checkout exists (a mutant)
needs_clone_always(exists) == TRUE

\* line 357: if not local_path.exists()
needs_clone(exists) == ~exists

\* what the account-derived candidate came to: no account name, no such repository,
\* a repository that fails the shape check, or one that passes it
UserOutcome(u, exists, shape_ok) ==
    IF u = <<>> THEN "no_account"
    ELSE IF ~exists THEN "missing"
    ELSE IF ~shape_ok THEN "invalid" ELSE "valid"

\* what the index-derived candidate came to: a homepage that does not name the
\* platform, a candidate that fails the shape check, or one that passes it
PypiOutcome(homepage, shape_ok) ==
    IF ~Contains(homepage, "github.com") THEN "no_github"
    ELSE IF ~shape_ok THEN "invalid" ELSE "valid"

(***************************************************************************)
(* toggle_module_source, one action per stretch of code between two        *)
(* consultations of the outside world.                                     *)
(***************************************************************************)
NoRerun == [same |-> FALSE, github_url |-> <<>>]

\* this invocation has the arguments of the one before it, which ended well
SameCall(m, fl, fp, fpy) ==
    /\ pc = "done" /\ exit_code = 0
    /\ module_name = m /\ force_local = fl /\ force_published = fp /\ force_pypi = fpy

\* source_config.get("editable") of lines 428 and 469 taking every entry with a path
\* (a mutant)
is_editable_any_path(src) == "path" \in DOMAIN src

\* source_config.get("editable") of lines 428 and 469, on the entries of the model
is_editable(src) == "editable" \in DOMAIN src /\ src.editable = TRUE

\* the module argument "all"
ModuleAll == <<"all">>

\* lines 445-490: what main does with its arguments
main_mode(module, fl, fpy, remove_editable) ==
    IF remove_editable THEN "remove_editable"
    ELSE IF module = ModuleAll /\ ~fl THEN (IF fpy THEN "all_pypi" ELSE "all_published")
    ELSE IF module = <<>> THEN "usage"
    ELSE "single"

\* lines 434-436 and 477-485, the flags of the toggle of one editable package, with
\* --pypi ignored by the loop of main (a mutant)
BulkFlagsPublishedOnly(mode) == <<FALSE, TRUE, FALSE>>

\* lines 434-436 and 477-485: force_local, force_published, force_pypi of the toggle
\* of one editable package
BulkFlags(mode) ==
    IF mode = "all_pypi" THEN <<FALSE, FALSE, TRUE>> ELSE <<FALSE, TRUE, FALSE>>

\* the command line of a single toggle, the one call of its process
NoArgs == [module |-> <<>>, force_local |-> FALSE, force_published |-> FALSE,
           force_pypi |-> FALSE, remove_editable |-> FALSE]

SingleCli == [args |-> NoArgs, mode |-> "single", stage |-> "call", loaded |-> <<>>,
              queue |-> <<>>, found |-> <<>>, calls |-> <<>>, out |-> <<>>]

\* a call of toggle_module_source starts and its arguments are bound.  A single
\* toggle: after the process before it is forgotten (Exit), or at once when it repeats
\* the call of that process.  In a loop over the editable packages: for the next
\* package of the loop, once the call before it has returned.
Begin(m, fl, fp, fpy) ==
    /\ IF cli.mode = "single"
       THEN /\ m \in ToggledPackages
            /\ pc = "idle" \/ SameCall(m, fl, fp, fpy)
            /\ cli' = cli
       ELSE /\ cli.stage = "loop"
            /\ pc \in {"idle", "done"} /\ exit_code = 0
            /\ cli.queue # <<>>
            /\ cli.mode # "report"
            /\ cli.mode = "remove_editable" => is_editable(Head(cli.queue)[2])
            /\ m = Head(cli.queue)[1]
            /\ <<fl, fp, fpy>> = BulkFlags(cli.mode)
            /\ cli' = [cli EXCEPT !.queue = Tail(@),
                                  !.found = IF cli.mode = "remove_editable"
                                            THEN Append(@, m) ELSE @,
                                  !.calls = Append(@, <<m, fl, fp, fpy>>)]
    /\ module_name' = m
    /\ force_local' = fl
    /\ force_published' = fp
    /\ force_pypi' = fpy

\* the answers of the lookups are locals of the resolution
ForgetLookups ==
    /\ username' = <<>>
    /\ user_outcome' = "unknown"
    /\ pypi_outcome' = "unused"
    /\ pypi_url' = <<>>
    /\ UNCHANGED homepage_vars

FreshResolution ==
    /\ ForgetLookups
    /\ github_url' = <<>>
    /\ repo_valid' = FALSE
    /\ new_source' = EmptySource

FreshLocals ==
    /\ local_path' = <<>>
    /\ local_exists' = FALSE
    /\ current_branch' = <<>>

\* lines 251-256: pyproject.toml is missing
ToggleNoConfig(m, fl, fp, fpy) ==
    /\ Begin(m, fl, fp, fpy)
    /\ ~config_exists
    /\ current_source' = EmptySource
    /\ FreshLocals /\ FreshResolution
    /\ rerun' = NoRerun
    /\ events' = <<"log_error_no_pyproject", "sys_exit">>
    /\ exit_code' = 1
    /\ pc' = "done"
    /\ UNCHANGED world_vars

\* the event of uv_update_package(module_name): it returns True, or logs and returns False
\* uv_update_package letting its exceptions through, which ends the run (a mutant)
UvEventRaises(uv) == IF uv = "ok" THEN "uv_sync_ok" ELSE "sys_exit"

UvEvent(uv) == IF uv = "ok" THEN "uv_sync_ok" ELSE "uv_sync_failed"

\* lines 388-394: the status shown for new_source
SourceStatus(src) == IF "path" \in DOMAIN src THEN "status_source_path"
                     ELSE IF "git" \in DOMAIN src THEN "status_source_git"
                     ELSE "status_source_other"

\* lines 258-283: force_pypi
ToggleForcePypi(m, fl, fp, uv) ==
    /\ Begin(m, fl, fp, TRUE)
    /\ config_exists
    /\ current_source' = sources_get(sources, m)
    /\ FreshLocals /\ FreshResolution
    /\ rerun' = [same |-> SameCall(m, fl, fp, TRUE), github_url |-> <<>>]
    /\ IF sources_has(sources, m)
       THEN /\ sources' = sources_del(sources, m)
            /\ events' = <<"status_pypi", "write", UvEvent(uv)>>
       ELSE /\ sources' = sources
            /\ events' = <<"status_pypi_already", "write", UvEvent(uv)>>
    /\ exit_code' = 0
    /\ pc' = "done"
    /\ UNCHANGED <<config_exists, fs, env_toggle_dir>>

\* lines 258-304: load the configuration, resolve the local checkout and its branch.
\* rerun.same: the call repeats the one before it on the same checkout and branch
\* (a checkout that the earlier call cloned itself counts as the same).
ToggleLoad(m, fl, fp, branch) ==
    /\ Begin(m, fl, fp, FALSE)
    /\ config_exists
    /\ current_source' = sources_get(sources, m)
    /\ LET path == resolve_local_path(dev_toggle_dir(env_toggle_dir), m, fs)
           b == IF path \in fs THEN normalize_branch(branch) ELSE <<>>
       IN  /\ local_path' = path
           /\ local_exists' = (path \in fs)
           /\ current_branch' = b
           /\ path \notin fs => branch = <<>>
           /\ rerun' = IF SameCall(m, fl, fp, FALSE) /\ (b = current_branch \/ ~local_exists)
                       THEN [same |-> TRUE, github_url |-> github_url]
                       ELSE NoRerun
    /\ FreshResolution
    /\ events' = <<>>
    /\ exit_code' = 0
    /\ pc' = "resolve_user"
    /\ UNCHANGED world_vars

\* lines 306-316: the account-derived candidate
ResolveUser(u, exists, answers) ==
    /\ pc = "resolve_user"
    /\ LET candidate_url == AccountUrl(u, module_name)
           shape_ok == check_github_repo_is_python_package(candidate_url, answers)
           url == resolve_user_url(u, module_name, exists, shape_ok)
       IN  /\ username' = u
           /\ user_outcome' = UserOutcome(u, exists, shape_ok)
           /\ github_url' = url
           /\ repo_valid' = (url # <<>>)
           /\ pc' = IF url # <<>> THEN "decide" ELSE "resolve_pypi"
           /\ rerun' = IF url # <<>>
                       THEN [same |-> rerun.same /\ rerun.github_url = url, github_url |-> <<>>]
                       ELSE rerun
    /\ UNCHANGED <<cli, world_vars, call_vars, local_vars, pypi_outcome, pypi_url, homepage_vars,
                   new_source, events, exit_code>>

\* lines 317-336: the index-derived candidate (the same code in both branches)
ResolvePypi(data, answers) ==
    /\ pc = "resolve_pypi"
    /\ LET homepage == get_pypi_homepage(data)
           shape_ok == check_github_repo_is_python_package(pypi_candidate_url(homepage),
                                                           answers)
           url == resolve_pypi_url(homepage, shape_ok)
       IN  /\ pypi_outcome' = PypiOutcome(homepage, shape_ok)
           /\ pypi_url' = IF Contains(homepage, "github.com")
                          THEN pypi_candidate_url(homepage) ELSE <<>>
           /\ github_url' = url
           /\ repo_valid' = (url # <<>>)
           /\ rerun' = [same |-> rerun.same /\ rerun.github_url = url, github_url |-> <<>>]
    /\ pc' = "decide"
    /\ UNCHANGED <<cli, world_vars, call_vars, local_vars, username, user_outcome, homepage_vars,
                   new_source, events, exit_code>>

\* the entry the decision of lines 348-377 chooses
WantLocal == choose_local(force_local, force_published, current_source)

\* line 339: the warning shown when no URL was resolved
UrlWarning == IF github_url = <<>> THEN <<"status_warning_no_url">> ELSE <<>>

\* lines 338-346 and 357-371: the three sys.exit(1) of the decision
ToggleFatal ==
    /\ pc = "decide"
    /\ \/ /\ no_source(github_url, local_exists)
          /\ events' = events \o UrlWarning \o <<"status_error_no_local_no_url", "sys_exit">>
       \/ /\ ~no_source(github_url, local_exists)
          /\ WantLocal /\ needs_clone(local_exists) /\ github_url = <<>>
          /\ events' = events \o UrlWarning \o <<"status_error_cannot_clone", "sys_exit">>
       \/ /\ ~no_source(github_url, local_exists)
          /\ WantLocal /\ needs_clone(local_exists) /\ github_url # <<>> /\ ~repo_valid
          /\ events' = events \o <<"status_error_not_python_package", "sys_exit">>
    /\ exit_code' = 1
    /\ pc' = "done"
    /\ ForgetLookups
    /\ UNCHANGED <<cli, world_vars, call_vars, local_vars, url_vars, new_source, rerun>>

\* the decision went past its three sys.exit(1) and clones
Clones ==
    /\ ~no_source(github_url, local_exists)
    /\ WantLocal /\ needs_clone(local_exists) /\ github_url # <<>> /\ repo_valid

\* lines 355-383 with the entry assigned and the file written before the clone, and
\* `git clone` failing (a mutant)
ToggleCloneFailedAfterWrite ==
    /\ pc = "decide"
    /\ Clones
    /\ new_source' = local_source(local_path)
    /\ sources' = sources_set(sources, module_name, local_source(local_path))
    /\ events' = events \o <<"status_info_local_missing", "write", "clone_repo", "clone_failed">>
    /\ exit_code' = 1
    /\ pc' = "done"
    /\ ForgetLookups
    /\ UNCHANGED <<cli, config_exists, fs, env_toggle_dir, call_vars, local_vars, url_vars, rerun>>

\* lines 355-375, `git clone` failing: subprocess.run(check=True) raises
ToggleCloneFailed ==
    /\ pc = "decide"
    /\ Clones
    /\ new_source' = local_source(local_path)
    /\ events' = events \o <<"status_info_local_missing", "clone_repo", "clone_failed">>
    /\ exit_code' = 1
    /\ pc' = "done"
    /\ ForgetLookups
    /\ UNCHANGED <<cli, world_vars, call_vars, local_vars, url_vars, rerun>>

\* lines 355-394, a Local entry: clone if needed, write, refresh the lock, report
ToggleLocal(uv) ==
    /\ pc = "decide"
    /\ ~no_source(github_url, local_exists)
    /\ WantLocal
    /\ needs_clone(local_exists) => Clones
    /\ new_source' = local_source(local_path)
    /\ fs' = IF needs_clone(local_exists) THEN fs \cup {local_path} ELSE fs
    /\ sources' = sources_set(sources, module_name, local_source(local_path))
    /\ events' = events \o UrlWarning
          \o (IF needs_clone(local_exists)
              THEN <<"status_info_local_missing", "clone_repo">> ELSE <<>>)
          \o <<"write", UvEvent(uv), SourceStatus(local_source(local_path))>>
    /\ exit_code' = 0
    /\ pc' = "done"
    /\ ForgetLookups
    /\ UNCHANGED <<cli, config_exists, env_toggle_dir, call_vars, local_vars, url_vars, rerun>>

\* lines 376-394, a Published entry: write, refresh the lock, report.  With no URL
\* resolved the entry is {"git": None}, here [git |-> <<>>]: this is the outcome in
\* which the TOML library stores the value.
TogglePublished(uv) ==
    /\ pc = "decide"
    /\ ~no_source(github_url, local_exists)
    /\ ~WantLocal
    /\ new_source' = published_source(github_url, current_branch)
    /\ sources' = sources_set(sources, module_name,
                              published_source(github_url, current_branch))
    /\ events' = events \o UrlWarning
          \o <<"write", UvEvent(uv),
               SourceStatus(published_source(github_url, current_branch))>>
    /\ exit_code' = 0
    /\ pc' = "done"
    /\ ForgetLookups
    /\ UNCHANGED <<cli, config_exists, fs, env_toggle_dir, call_vars, local_vars, url_vars, rerun>>

\* line 379 with {"git": None}: TOML has no null, and this is the outcome in which
\* the TOML library raises on the assignment; nothing is written
ToggleTomlRejects ==
    /\ pc = "decide"
    /\ ~no_source(github_url, local_exists)
    /\ ~WantLocal
    /\ github_url = <<>>
    /\ new_source' = published_source(github_url, current_branch)
    /\ events' = events \o UrlWarning \o <<"convert_error">>
    /\ exit_code' = 1
    /\ pc' = "done"
    /\ ForgetLookups
    /\ UNCHANGED <<cli, world_vars, call_vars, local_vars, url_vars, rerun>>

\* the process has ended: nothing of it is left but the files it wrote
Exit ==
    /\ cli.mode = "single"
    /\ pc = "done"
    /\ pc' = "idle"
    /\ module_name' = <<>>
    /\ force_local' = FALSE
    /\ force_published' = FALSE
    /\ force_pypi' = FALSE
    /\ current_source' = EmptySource
    /\ FreshLocals /\ FreshResolution
    /\ events' = <<>>
    /\ exit_code' = 0
    /\ rerun' = NoRerun
    /\ UNCHANGED <<cli, world_vars>>

Init ==
    /\ config_exists \in BOOLEAN
    /\ env_toggle_dir \in ToggleDirs
    /\ fs \in SUBSET UNION {CandidatePaths(dev_toggle_dir(env_toggle_dir), m) :
                            m \in ToggledPackages}
    /\ sources \in InitSources(dev_toggle_dir(env_toggle_dir))
    /\ \A i, j \in 1..Len(sources) : sources[i][1] = sources[j][1] => i = j
    /\ \A i \in 1..Len(sources) :
           sources[i][2] \in InitEntries(dev_toggle_dir(env_toggle_dir), sources[i][1])
    /\ config_exists \/ (sources = <<>> /\ fs = {})
    \* the second package is configured only in the runs under the default directory
    /\ env_toggle_dir # <<>> => \A i \in 1..Len(sources) : sources[i][1] \in ToggledPackages
    /\ pc = "idle"
    /\ module_name = <<>>
    /\ force_local = FALSE
    /\ force_published = FALSE
    /\ force_pypi = FALSE
    /\ current_source = EmptySource
    /\ local_path = <<>>
    /\ local_exists = FALSE
    /\ current_branch = <<>>
    /\ username = <<>>
    /\ user_outcome = "unknown"
    /\ pypi_outcome = "unused"
    /\ pypi_url = <<>>
    /\ pypi_data = NoData
    /\ pypi_homepage = <<>>
    /\ github_url = <<>>
    /\ repo_valid = FALSE
    /\ new_source = EmptySource
    /\ events = <<>>
    /\ exit_code = 0
    /\ rerun = NoRerun
    /\ cli = SingleCli

Next ==
    \/ \E m \in ToggledPackages, fl \in BOOLEAN, fp \in BOOLEAN, fpy \in BOOLEAN :
           ToggleNoConfig(m, fl, fp, fpy)
    \/ \E m \in ToggledPackages, fl \in BOOLEAN, fp \in BOOLEAN, uv \in UvResults :
           ToggleForcePypi(m, fl, fp, uv)
    \/ \E m \in ToggledPackages, fl \in BOOLEAN, fp \in BOOLEAN, branch \in Branches :
           ToggleLoad(m, fl, fp, branch)
    \/ \E u \in Usernames, exists \in BOOLEAN, answers \in ProbeScenarios :
           ResolveUser(u, exists, answers)
    \/ \E data \in TogglePypiData, answers \in ProbeScenarios :
           ResolvePypi(data, answers)
    \/ ToggleFatal
    \/ ToggleCloneFailed
    \/ \E uv \in UvResults : ToggleLocal(uv)
    \/ \E uv \in UvResults : TogglePublished(uv)
    \/ ToggleTomlRejects
    \/ Exit

Spec == Init /\ [][Next]_vars

(***************************************************************************)
(* get_pypi_homepage on its own: the metadata the index answered is drawn  *)
(* from every record with at most MaxProjectUrls project URLs, and the one *)
(* action is the call.                                                     *)
(***************************************************************************)
\* project-URL keys as a package declares them: the three priority keys (one of
\* them in two spellings that differ by case), two skipped labels and a label of
\* neither kind
ProjectUrlKeys ==
    { k_repository,
      <<"S","o","u","r","c","e">>,
      k_source,
      k_source_code,
      <<"C","h","a","n","g","e","l","o","g">>,
      <<"B","u","g","t","r","a","c","k","e","r">>,
      <<"H","o","m","e">> }

ProjectUrlValues == {u_repo, u_other_repo, u_blob, u_tree, u_plain}

HomePages == {<<>>, u_repo, u_blob, u_plain}

\* info.project_urls: a mapping in declaration order, its keys distinct
ProjectUrls ==
    UNION { { f \in [1..n -> ProjectUrlKeys \X ProjectUrlValues] :
                \A i, j \in 1..n : f[i][1] = f[j][1] => i = j } : n \in 0..MaxProjectUrls }

\* what get_pypi_info returns: {} after a failed request, the metadata otherwise
AllPypiData ==
    {NoData} \cup [fetched : {TRUE}, home_page : HomePages, project_urls : ProjectUrls]

InitHomepage ==
    /\ config_exists = TRUE
    /\ env_toggle_dir = <<>>
    /\ fs = {}
    /\ sources = <<>>
    /\ pc = "homepage_call"
    /\ module_name = PkgDemo
    /\ force_local = FALSE
    /\ force_published = FALSE
    /\ force_pypi = FALSE
    /\ current_source = EmptySource
    /\ local_path = <<>>
    /\ local_exists = FALSE
    /\ current_branch = <<>>
    /\ username = <<>>
    /\ user_outcome = "unknown"
    /\ pypi_outcome = "unused"
    /\ pypi_url = <<>>
    /\ pypi_data \in AllPypiData
    /\ pypi_homepage = <<>>
    /\ github_url = <<>>
    /\ repo_valid = FALSE
    /\ new_source = EmptySource
    /\ events = <<>>
    /\ exit_code = 0
    /\ rerun = NoRerun
    /\ cli = SingleCli

\* lines 129-166: homepage = get_pypi_homepage(module_name)
GetPypiHomepage ==
    /\ pc = "homepage_call"
    /\ pypi_homepage' = get_pypi_homepage(pypi_data)
    /\ pc' = "homepage_done"
    /\ UNCHANGED <<cli, world_vars, call_vars, local_vars, lookup_vars, pypi_data, url_vars,
                   new_source, events, exit_code, rerun>>

NextHomepage == GetPypiHomepage

SpecHomepage == InitHomepage /\ [][NextHomepage]_vars

(***************************************************************************)
(* check_github_repo_is_python_package on its own: the URL is drawn, and   *)
(* the contents API answers each request that the call makes.              *)
(***************************************************************************)
\* the URLs the shape check is called with
ProbeUrls ==
    { u_repo, u_repo_git, u_other_repo, u_blob, u_tree, u_org, u_plain,
      <<"http://", "github.com", "/", "acme", "/", "demo">>,
      <<"https://", "github.com", "/", "acme", "/", "demo", ".", "js">>,
      <<"https://", "example.com", "/", "acme", "/", "demo">>,
      <<"not-a-url">>,
      AccountUrl(<<"alice">>, PkgDemo), AccountUrl(<<"alice">>, PkgMixed) }

InitProbe ==
    /\ config_exists = TRUE
    /\ env_toggle_dir = <<>>
    /\ fs = {}
    /\ sources = <<>>
    /\ pc = "probe_call"
    /\ module_name = PkgDemo
    /\ force_local = FALSE
    /\ force_published = FALSE
    /\ force_pypi = FALSE
    /\ current_source = EmptySource
    /\ local_path = <<>>
    /\ local_exists = FALSE
    /\ current_branch = <<>>
    /\ username = <<>>
    /\ user_outcome = "unknown"
    /\ pypi_outcome = "unused"
    /\ pypi_url = <<>>
    /\ pypi_data = NoData
    /\ pypi_homepage = <<>>
    /\ github_url \in ProbeUrls
    /\ repo_valid = FALSE
    /\ new_source = EmptySource
    /\ events = <<>>
    /\ exit_code = 0
    /\ rerun = NoRerun
    /\ cli = SingleCli

\* the HEAD requests of one call, in the order made, each with its file name and the
\* answer it got
ProbesIssued(url, answers) ==
    IF ~ParseGithubUrl(url).matched THEN <<>>
    ELSE [i \in 1..IndicatorLoop(answers, 1).probes |-> <<indicators[i], answers[i]>>]

\* lines 212-242: repo_valid = check_github_repo_is_python_package(github_url)
CheckPythonPackage(answers) ==
    /\ pc = "probe_call"
    /\ repo_valid' = check_github_repo_is_python_package(github_url, answers)
    /\ events' = ProbesIssued(github_url, answers)
    /\ pc' = "probe_done"
    /\ UNCHANGED <<cli, world_vars, call_vars, local_vars, lookup_vars, homepage_vars,
                   github_url, new_source, exit_code, rerun>>

NextProbe == \E answers \in ProbeAnswers : CheckPythonPackage(answers)

SpecProbe == InitProbe /\ [][NextProbe]_vars

(***************************************************************************)
(* main and find_and_update_editable_sources: the command line, and the    *)
(* loop that toggles every editable package.                               *)
(***************************************************************************)
toggle_vars == <<world_vars, pc, call_vars, local_vars, lookup_vars, homepage_vars, url_vars,
                 new_source, events, rerun>>

\* the modes in which the editable packages are looked for: the two of main, and the
\* call find_and_update_editable_sources(switch_to_published=False)
FindModes == {"remove_editable", "report"}
AllModes == {"all_published", "all_pypi"}

\* the entries a package can have when main starts
BulkEntries(dir, m) ==
    { local_source(local_path_default(dir, m)),
      [path |-> local_path_default(dir, m), editable |-> FALSE],
      [git |-> AccountUrl(<<"alice">>, m)] }

\* [tool.uv.sources] when main starts: up to two packages, in either order
BulkSources(dir) ==
    {<<>>}
    \cup {<<<<m, e>>>> : m \in Packages, e \in UNION {BulkEntries(dir, x) : x \in Packages}}
    \cup {<<<<m1, e1>>, <<m2, e2>>>> :
             m1 \in Packages, m2 \in Packages,
             e1 \in UNION {BulkEntries(dir, x) : x \in Packages},
             e2 \in UNION {BulkEntries(dir, x) : x \in Packages}}

\* the command lines of the model
BulkArgs ==
    [module : {<<>>, ModuleAll}, force_local : BOOLEAN, force_published : BOOLEAN,
     force_pypi : BOOLEAN, remove_editable : BOOLEAN]

StartCli(args, mode) ==
    [args |-> args, mode |-> mode, stage |-> "start", loaded |-> <<>>, queue |-> <<>>,
     found |-> <<>>, calls |-> <<>>, out |-> <<>>]

InitBulk ==
    /\ config_exists \in BOOLEAN
    /\ env_toggle_dir = <<>>
    /\ fs \in SUBSET {local_path_default(dev_toggle_dir(env_toggle_dir), m) : m \in Packages}
    /\ sources \in BulkSources(dev_toggle_dir(env_toggle_dir))
    /\ \A i, j \in 1..Len(sources) : sources[i][1] = sources[j][1] => i = j
    /\ \A i \in 1..Len(sources) :
           sources[i][2] \in BulkEntries(dev_toggle_dir(env_toggle_dir), sources[i][1])
    /\ config_exists \/ (sources = <<>> /\ fs = {})
    /\ \/ \E args \in BulkArgs :
            /\ main_mode(args.module, args.force_local, args.force_pypi,
                         args.remove_editable) # "single"
            \* with --remove-editable the other arguments are not read
            /\ args.remove_editable =>
                   /\ args.module = <<>>
                   /\ args.force_local = args.force_pypi
                   /\ ~args.force_published
            /\ cli = StartCli(args, main_mode(args.module, args.force_local,
                                              args.force_pypi, args.remove_editable))
       \/ cli = StartCli(NoArgs, "report")
    /\ pc = "idle"
    /\ module_name = <<>>
    /\ force_local = FALSE
    /\ force_published = FALSE
    /\ force_pypi = FALSE
    /\ current_source = EmptySource
    /\ local_path = <<>>
    /\ local_exists = FALSE
    /\ current_branch = <<>>
    /\ username = <<>>
    /\ user_outcome = "unknown"
    /\ pypi_outcome = "unused"
    /\ pypi_url = <<>>
    /\ pypi_data = NoData
    /\ pypi_homepage = <<>>
    /\ github_url = <<>>
    /\ repo_valid = FALSE
    /\ new_source = EmptySource
    /\ events = <<>>
    /\ exit_code = 0
    /\ rerun = NoRerun

\* lines 410-415 and 457-464 with the missing file only reported (a mutant)
MainNoConfigReturns ==
    /\ cli.stage = "start"
    /\ cli.mode \in FindModes \cup AllModes
    /\ ~config_exists
    /\ cli' = [cli EXCEPT !.stage = "returned", !.out = <<"status_error_no_pyproject">>]
    /\ UNCHANGED <<toggle_vars, exit_code>>

\* lines 410-415 and 457-464: pyproject.toml is missing
MainNoConfig ==
    /\ cli.stage = "start"
    /\ cli.mode \in FindModes \cup AllModes
    /\ ~config_exists
    /\ cli' = [cli EXCEPT !.stage = "exited",
                          !.out = <<"status_error_no_pyproject", "sys_exit">>]
    /\ exit_code' = 1
    /\ UNCHANGED toggle_vars

\* lines 490-491: raise click.UsageError, which click turns into exit code 2
MainUsageError ==
    /\ cli.stage = "start"
    /\ cli.mode = "usage"
    /\ cli' = [cli EXCEPT !.stage = "exited", !.out = <<"usage_error">>]
    /\ exit_code' = 2
    /\ UNCHANGED toggle_vars

\* the names of the entries of a table, in its order
Names(srcs) == [i \in 1..Len(srcs) |-> srcs[i][1]]

\* lines 465-471: the editable entries of the table, in its order
editable_entries(srcs) == SelectSeq(srcs, LAMBDA e : is_editable(e[2]))

\* lines 417-424 and 465-474: load the table and look at it
BulkScan ==
    /\ cli.stage = "start"
    /\ config_exists
    /\ \/ /\ cli.mode \in FindModes
          /\ cli' = IF sources = <<>>
                    THEN [cli EXCEPT !.stage = "returned", !.loaded = sources,
                                     !.out = <<"info_no_sources">>]
                    ELSE [cli EXCEPT !.stage = "loop", !.loaded = sources,
                                     !.queue = sources]
       \/ /\ cli.mode \in AllModes
          /\ cli' = IF editable_entries(sources) = <<>>
                    THEN [cli EXCEPT !.stage = "returned", !.loaded = sources,
                                     !.out = <<"info_no_editable">>]
                    ELSE [cli EXCEPT !.stage = "loop", !.loaded = sources,
                                     !.queue = editable_entries(sources),
                                     !.found = Names(editable_entries(sources))]
    /\ UNCHANGED <<toggle_vars, exit_code>>

\* the call before this point of the loop has ended, in whatever way (a mutant)
LoopReadyAfterExit == cli.stage = "loop" /\ pc \in {"idle", "done"}

\* the call before this point of the loop has returned
LoopReady == cli.stage = "loop" /\ pc \in {"idle", "done"} /\ exit_code = 0

\* lines 427-428: an entry that is not editable is passed over
BulkSkip ==
    /\ LoopReady
    /\ cli.mode \in FindModes
    /\ cli.queue # <<>>
    /\ ~is_editable(Head(cli.queue)[2])
    /\ cli' = [cli EXCEPT !.queue = Tail(@)]
    /\ UNCHANGED <<toggle_vars, exit_code>>

\* lines 428-432 with switch_to_published false: the package is reported only
BulkReportOnly ==
    /\ LoopReady
    /\ cli.mode = "report"
    /\ cli.queue # <<>>
    /\ is_editable(Head(cli.queue)[2])
    /\ cli' = [cli EXCEPT !.queue = Tail(@), !.found = Append(@, Head(cli.queue)[1])]
    /\ UNCHANGED <<toggle_vars, exit_code>>

\* lines 438-441, 448-453 and 486-489: the loop is over
BulkReturn ==
    /\ LoopReady
    /\ cli.queue = <<>>
    /\ cli' = [cli EXCEPT !.stage = "returned",
                          !.out = IF cli.found = <<>> THEN <<"info_no_editable">>
                                  ELSE IF cli.mode = "report" THEN <<>>
                                  ELSE <<"ok_message">>]
    /\ UNCHANGED <<toggle_vars, exit_code>>

NextBulk ==
    \/ MainNoConfig
    \/ MainUsageError
    \/ BulkScan
    \/ BulkSkip
    \/ BulkReportOnly
    \/ BulkReturn
    \/ \E m \in Packages, fl \in BOOLEAN, fp \in BOOLEAN, uv \in UvResults :
           ToggleForcePypi(m, fl, fp, uv)
    \/ \E m \in Packages, fl \in BOOLEAN, fp \in BOOLEAN, branch \in Branches :
           ToggleLoad(m, fl, fp, branch)
    \/ \E u \in Usernames, exists \in BOOLEAN, answers \in ProbeScenarios :
           ResolveUser(u, exists, answers)
    \/ \E data \in TogglePypiData, answers \in ProbeScenarios :
           ResolvePypi(data, answers)
    \/ ToggleFatal
    \/ \E uv \in UvResults : TogglePublished(uv)
    \/ ToggleTomlRejects

SpecBulk == InitBulk /\ [][NextBulk]_vars

\* every way of running main: a single toggle, --remove-editable, 'all', no module
InitMain == Init \/ InitBulk

NextMain ==
    \/ Next
    \/ MainNoConfig
    \/ MainUsageError
    \/ BulkScan
    \/ BulkSkip
    \/ BulkReportOnly
    \/ BulkReturn
    \/ \E m \in Packages \ ToggledPackages, fl \in BOOLEAN, fp \in BOOLEAN, uv \in UvResults :
           ToggleForcePypi(m, fl, fp, uv)
    \/ \E m \in Packages \ ToggledPackages, fl \in BOOLEAN, fp \in BOOLEAN,
          branch \in Branches :
           ToggleLoad(m, fl, fp, branch)

SpecMain == InitMain /\ [][NextMain]_vars

(***************************************************************************)
(* The properties.                                                         *)
(***************************************************************************)
\* the kind of a source entry
IsLocal(e) == DOMAIN e = {"path", "editable"} /\ e.editable = TRUE
IsPublished(e) == "git" \in DOMAIN e /\ DOMAIN e \subseteq {"git", "rev"}
Has(seq, x) == \E i \in 1..Len(seq) : seq[i] = x
IndexOf(seq, x) == CHOOSE i \in 1..Len(seq) : seq[i] = x

HasEntry(srcs, m) == \E i \in 1..Len(srcs) : srcs[i][1] = m

\* the root directory of the checkouts: the environment override or the default
Root == IF env_toggle_dir = <<>> THEN <<"pypi">> ELSE env_toggle_dir

\* the rule of the decision step, from the flags and the entry found
LocalChosen == force_local \/ (~force_published /\ IsPublished(current_source))

\* a toggle without force_pypi ran to its end without a fatal exit
Toggled == pc = "done" /\ ~force_pypi /\ config_exists /\ exit_code = 0

\* C1: a toggle without forceIndexDefault that passes the decision step without a
\* fatal exit writes a Local entry iff forceLocal, or no forcePublished and the entry
\* found is Published; otherwise it writes a Published entry.  forceLocal wins over
\* forcePublished.
C1_DecisionRule ==
    Toggled =>
        LET e == sources_get(sources, module_name)
        IN  /\ HasEntry(sources, module_name)
            /\ IsLocal(e) <=> LocalChosen
            /\ ~LocalChosen => IsPublished(e)

\* C1: both flags set, and a Local entry was written over a Local one
C1_Witness ==
    /\ Toggled
    /\ force_local /\ force_published
    /\ IsLocal(current_source)
    /\ IsLocal(sources_get(sources, module_name))

\* C2: a successful toggle with no force flag turns a Published entry into a Local one
\* and a Local entry into a Published one; none leaves the variant as it was.
C2_NoFlagAlternates ==
    [][ (pc = "decide" /\ pc' = "done" /\ exit_code' = 0
           /\ ~force_local /\ ~force_published)
        => LET before == sources_get(sources, module_name)
               after == sources_get(sources', module_name)
           IN  /\ IsPublished(before) => IsLocal(after)
               /\ "path" \in DOMAIN before => IsPublished(after)
               /\ IsLocal(after) \/ IsPublished(after)
               /\ ~(IsPublished(before) /\ IsPublished(after))
               /\ ~("path" \in DOMAIN before /\ IsLocal(after)) ]_vars

\* C2: the second of two no-flag toggles in a row found the Local entry the first
\* one wrote and wrote a Published one
C2_Witness ==
    /\ Toggled
    /\ ~force_local /\ ~force_published
    /\ rerun.same
    /\ IsLocal(current_source)
    /\ IsPublished(sources_get(sources, module_name))

\* C3: a toggle with a force flag, repeated at once with the same arguments, the same
\* checkout and branch and the same resolved URL, leaves the sources mapping as the
\* first application left it.
C3_ForcedIdempotent ==
    [][ (pc' = "done" /\ rerun'.same
           /\ (force_local' \/ force_published' \/ force_pypi'))
        => sources' = sources ]_vars

\* C3: a repeated forcePublished toggle ended, its entry pinned to a branch
C3_Witness ==
    /\ Toggled
    /\ force_published /\ ~force_local
    /\ rerun.same
    /\ "rev" \in DOMAIN sources_get(sources, module_name)
    /\ current_source = sources_get(sources, module_name)

\* C4: a toggle with forceIndexDefault, whatever the other flags and the entry found,
\* leaves the package without an entry, persists, refreshes the lock and returns
\* without error, in one stretch that resolves no URL, looks up no checkout and clones
\* nothing; it reports 'removed' if an entry existed and 'already at default' if not.
C4_ForceIndexDefault ==
    [][ (pc' = "done" /\ force_pypi' /\ config_exists)
        => /\ pc \in {"idle", "done"}
           /\ ~HasEntry(sources', module_name')
           /\ exit_code' = 0
           /\ Len(events') = 3
           /\ events'[1] = IF HasEntry(sources, module_name')
                           THEN "status_pypi" ELSE "status_pypi_already"
           /\ events'[2] = "write"
           /\ events'[3] \in {"uv_sync_ok", "uv_sync_failed"}
           /\ fs' = fs
           /\ local_path' = <<>> /\ ~local_exists'
           /\ github_url' = <<>> /\ ~repo_valid'
           /\ user_outcome' = "unknown" /\ pypi_outcome' = "unused" ]_vars

\* C4: forceIndexDefault together with forceLocal removed a Local entry
C4_Witness ==
    /\ pc = "done" /\ force_pypi /\ force_local
    /\ IsLocal(current_source)
    /\ events[1] = "status_pypi"
    /\ ~HasEntry(sources, module_name)

\* no URL was resolved and no candidate path of the package exists
NoUrlNoCheckout ==
    /\ ~force_pypi /\ config_exists
    /\ github_url = <<>>
    /\ CandidatePaths(Root, module_name) \cap fs = {}

\* C5: a toggle without forceIndexDefault that resolved no URL and finds no checkout
\* under any candidate path ends in a fatal error with a non-zero exit, whatever the
\* flags and the entry found, and writes nothing.
C5_NoSourceFatal ==
    /\ (pc = "decide" /\ NoUrlNoCheckout) => ENABLED ToggleFatal
    /\ (pc = "done" /\ NoUrlNoCheckout)
           => /\ exit_code # 0
              /\ Has(events, "sys_exit")
              /\ ~Has(events, "write")
              /\ ~Has(events, "clone_repo")

\* C5: the fatal exit, with forcePublished set and an entry present
C5_Witness ==
    /\ pc = "done" /\ NoUrlNoCheckout
    /\ force_published /\ ~force_local
    /\ IsLocal(current_source)
    /\ exit_code = 1
    /\ Has(events, "status_error_no_local_no_url")

\* the URL resolved is a candidate whose shape check passed
ShapeValidated ==
    /\ github_url # <<>>
    /\ \/ user_outcome = "valid" /\ github_url = AccountUrl(username, module_name)
       \/ user_outcome # "valid" /\ pypi_outcome = "valid" /\ github_url = pypi_url

\* C6: a clone is made only when a Local entry is chosen, the local path does not exist
\* and the URL is a resolved one that passed the shape check; when a Local entry is
\* chosen, the path does not exist and there is no such URL, the toggle ends fatally
\* without cloning.  A URL that is present has its validity flag set.
C6_CloneOnlyValidated ==
    [][ pc = "decide"
        => /\ Has(events', "clone_repo")
                => /\ LocalChosen
                   /\ local_path \notin fs
                   /\ ShapeValidated /\ repo_valid
           /\ (LocalChosen /\ local_path \notin fs /\ ~ShapeValidated)
                => /\ exit_code' # 0
                   /\ Has(events', "sys_exit")
                   /\ ~Has(events', "clone_repo")
                   /\ fs' = fs /\ sources' = sources
           /\ github_url # <<>> => repo_valid ]_vars

\* C6: a clone was made for a Local entry chosen without forceLocal
C6_Witness ==
    /\ Toggled
    /\ ~force_local /\ IsPublished(current_source)
    /\ ~local_exists /\ local_path \in fs
    /\ Has(events, "clone_repo")

\* C7: forceLocal on a package without a checkout whose URL resolves: the clone goes
\* to <root>/<name>, the as-is path, and comes before the write; the entry written is
\* exactly {path: <root>/<name>, editable: true}.
C7_CloneThenWrite ==
    (pc = "done" /\ force_local /\ ~force_pypi /\ config_exists
        /\ ~local_exists /\ github_url # <<>>)
    => /\ Has(events, "clone_repo")
       /\ local_path = PathOf(Root, module_name)
       /\ exit_code = 0
            => /\ Has(events, "write")
               /\ IndexOf(events, "clone_repo") < IndexOf(events, "write")
               /\ PathOf(Root, module_name) \in fs
               /\ sources_get(sources, module_name)
                      = [path |-> PathOf(Root, module_name), editable |-> TRUE]
       /\ exit_code # 0 => ~Has(events, "write")

\* C7: the clone and the write under a root set by the environment, over a Published entry
C7_Witness ==
    /\ Toggled /\ force_local
    /\ env_toggle_dir # <<>>
    /\ IsPublished(current_source)
    /\ ~local_exists
    /\ events[1] = "status_info_local_missing" /\ events[2] = "clone_repo"
    /\ events[3] = "write"

\* C8: a Published entry written by a toggle has a rev iff the checkout exists and its
\* branch is a non-empty name other than main and master, and the rev is that branch;
\* otherwise the entry is {git: <resolved URL>} alone.
C8_RevIffBranch ==
    (Toggled /\ ~LocalChosen)
    => LET e == sources_get(sources, module_name)
           pinned == local_exists
                       /\ current_branch \notin {<<>>, <<"main">>, <<"master">>}
       IN  /\ IsPublished(e)
           /\ e.git = github_url
           /\ "rev" \in DOMAIN e <=> pinned
           /\ pinned => e = [git |-> github_url, rev |-> current_branch]
           /\ ~pinned => e = [git |-> github_url]

\* C8: forcePublished wrote an entry pinned to the branch of the checkout
C8_Witness ==
    /\ Toggled /\ force_published /\ ~force_local
    /\ local_exists
    /\ github_url # <<>>
    /\ sources_get(sources, module_name) = [git |-> github_url, rev |-> <<"feature">>]

\* C9: the account-derived URL is tried first and used when the account name is known,
\* the repository exists and it passes the shape check; the index-derived homepage is
\* consulted only when that fails, and used only if it passes its checks; the URL is
\* absent if neither candidate passes.
C9_ResolutionOrder ==
    /\ pc = "resolve_pypi" => user_outcome \in {"no_account", "missing", "invalid"}
    /\ pc = "decide" =>
        /\ user_outcome \in {"no_account", "missing", "invalid", "valid"}
        /\ user_outcome = "valid"
             => /\ github_url = AccountUrl(username, module_name)
                /\ pypi_outcome = "unused"
        /\ user_outcome # "valid" => pypi_outcome \in {"no_github", "invalid", "valid"}
        /\ (user_outcome # "valid" /\ pypi_outcome = "valid")
             => github_url = pypi_url /\ pypi_url # <<>>
        /\ (user_outcome # "valid" /\ pypi_outcome # "valid") => github_url = <<>>
        /\ repo_valid <=> github_url # <<>>

\* C9: the account's repository failed the shape check and the index-derived one passed
C9_Witness ==
    /\ pc = "decide"
    /\ user_outcome = "invalid"
    /\ pypi_outcome = "valid"
    /\ github_url = pypi_url /\ github_url # <<>>

\* the project URLs of a record by their keys, as the rules of the homepage read them
HomepageUrls(data) == normalized_urls(data.project_urls)

\* rule (b): the URL under the first of 'repository', 'source', 'source code' that
\* holds a repository URL
RuleB(data) ==
    LET N == HomepageUrls(data)
        ok(k) == DictGet(N, k) # <<>> /\ is_repository_url(DictGet(N, k))
    IN  IF ok(k_repository) THEN {DictGet(N, k_repository)}
        ELSE IF ok(k_source) THEN {DictGet(N, k_source)}
        ELSE IF ok(k_source_code) THEN {DictGet(N, k_source_code)}
        ELSE {}

\* rule (c): the repository URLs under keys that are not among the given labels
RuleC(data, labels) ==
    LET N == HomepageUrls(data)
    IN  {N[i][2] : i \in {j \in 1..Len(N) : N[j][1] \notin labels /\ is_repository_url(N[j][2])}}

\* rule (d): the project URLs that contain the platform's domain
RuleD(data) ==
    LET N == HomepageUrls(data)
    IN  {N[i][2] : i \in {j \in 1..Len(N) : Contains(N[j][2], "github.com")}}

\* the values the first applicable rule of (a)..(e) allows, the non-source labels
\* of rule (c) being `labels`
HomepageByRules(data, labels) ==
    IF data.home_page # <<>> /\ is_repository_url(data.home_page) THEN {data.home_page}
    ELSE IF RuleB(data) # {} THEN RuleB(data)
    ELSE IF RuleC(data, labels) # {} THEN RuleC(data, labels)
    ELSE IF RuleD(data) # {} THEN RuleD(data)
    ELSE {data.home_page}

NonSourceLabels == {k_changelog, k_documentation, k_docs, k_issues, k_bug_tracker}

\* C10, as stated: get_pypi_homepage returns the value of the first applicable rule of
\* (a) homepage field that is a repository URL, (b) the URL under 'repository', 'source',
\* 'source code', (c) a repository URL under a key that is not one of changelog,
\* documentation, docs, issues, bug tracker, (d) a URL with the platform's domain,
\* (e) the raw homepage field.  The code also skips the label 'bugtracker' in rule (c),
\* so this statement fails.
C10_AsStated ==
    pc = "homepage_done" => pypi_homepage \in HomepageByRules(pypi_data, NonSourceLabels)

\* C10, amended: the same order of rules, the non-source labels of rule (c) being
\* changelog, documentation, docs, issues, bug tracker and bugtracker; a later rule is
\* never used when an earlier one has a match, whatever the declaration order.
C10_HomepageRuleOrder ==
    pc = "homepage_done" =>
        pypi_homepage \in HomepageByRules(pypi_data, NonSourceLabels \cup {k_bugtracker})

\* C10: rule (b) decided although a project URL declared before its match would have
\* matched rule (d)
C10_Witness ==
    /\ pc = "homepage_done"
    /\ pypi_data.fetched
    /\ ~is_repository_url(pypi_data.home_page)
    /\ RuleB(pypi_data) = {pypi_homepage}
    /\ Len(pypi_data.project_urls) = 2
    /\ Contains(pypi_data.project_urls[1][2], "github.com")
    /\ pypi_data.project_urls[1][2] # pypi_homepage
    /\ pypi_data.project_urls[2][2] = pypi_homepage

\* the URL the record declares under a key (after normalisation), <<>> if none
UrlUnder(data, k) == DictGet(HomepageUrls(data), k)

\* the URLs the record declares
DeclaredUrls(data) == {data.project_urls[i][2] : i \in 1..Len(data.project_urls)}

C12_NeverFileView ==
    pc = "homepage_done" =>
        ~Contains(pypi_homepage, "/blob/") /\ ~Contains(pypi_homepage, "/tree/")

\* a record with the letters of its project-URL keys mapped by f
WithKeys(data, f(_)) ==
    [data EXCEPT !.project_urls =
        [i \in 1..Len(data.project_urls) |->
            <<[j \in 1..Len(data.project_urls[i][1]) |-> f(data.project_urls[i][1][j])],
              data.project_urls[i][2]>>]]

UpperChar(c) ==
    IF \E i \in 1..Len(LowerCase) : LowerCase[i] = c
    THEN UpperCase[CHOOSE i \in 1..Len(LowerCase) : LowerCase[i] = c]
    ELSE c

SwapChar(c) == IF UpperChar(c) # c THEN UpperChar(c) ELSE LowerChar(c)

\* C13: changing only the letter case of the project-URL keys of a record does not
\* change the URL returned: the record, and the records with its keys in upper case, in
\* lower case and with the case of every letter swapped, give the same URL.
C13_KeyCaseInsensitive ==
    pc = "homepage_done" =>
        /\ pypi_homepage = get_pypi_homepage(WithKeys(pypi_data, UpperChar))
        /\ pypi_homepage = get_pypi_homepage(WithKeys(pypi_data, LowerChar))
        /\ pypi_homepage = get_pypi_homepage(WithKeys(pypi_data, SwapChar))

\* C13: a capitalised 'Source' matched as a priority key after a capitalised
\* 'Changelog' that holds a repository URL
C13_Witness ==
    /\ pc = "homepage_done"
    /\ ~is_repository_url(pypi_data.home_page)
    /\ Len(pypi_data.project_urls) = 2
    /\ pypi_data.project_urls[1] = <<<<"C","h","a","n","g","e","l","o","g">>, u_other_repo>>
    /\ pypi_data.project_urls[2] = <<<<"S","o","u","r","c","e">>, u_repo>>
    /\ pypi_homepage = u_repo
    /\ get_pypi_homepage(WithKeys(pypi_data, UpperChar)) = u_repo

\* a request of the shape check was made and met a failure other than "not found"
ProbeFailure(answers) ==
    \E i \in 1..Len(answers) :
        /\ answers[i] \in {"http_error", "url_error"}
        /\ \A j \in 1..(i - 1) : answers[j] \in {"404", "http_error"}

\* the events of the explicitly fatal ends of a toggle
FatalEvents ==
    {"log_error_no_pyproject", "status_error_no_local_no_url", "status_error_cannot_clone",
     "status_error_not_python_package", "clone_failed"}

\* C14: a failed lookup gives a negative result and never aborts the toggle: a failed
\* existence request gives false, a failed metadata request the empty homepage, a
\* failed request of the shape check false; the toggle goes on and ends with a
\* non-zero exit only where the configuration is missing, no source is usable and no
\* checkout exists, or the clone is impossible or failed.  The shape check goes on
\* after an HTTP error other than 404 and can answer true, and a toggle that resolved
\* no URL can end in the exception of the TOML library, so this fails.
C14_LookupFailuresDegrade ==
    [][ /\ \A u \in Usernames, exists \in BOOLEAN, answers \in ProbeScenarios :
              ResolveUser(u, exists, answers)
                => /\ ProbeFailure(answers) => user_outcome' # "valid"
                   /\ ~exists => github_url' = <<>>
        /\ \A data \in TogglePypiData, answers \in ProbeScenarios :
              ResolvePypi(data, answers)
                => /\ ProbeFailure(answers) => pypi_outcome' # "valid"
                   /\ ~data.fetched => pypi_outcome' = "no_github" /\ github_url' = <<>>
        /\ (pc' = "done" /\ exit_code' # 0)
              => \E i \in 1..Len(events') : events'[i] \in FatalEvents ]_vars

(***************************************************************************)
(* The loops over the editable packages.                                   *)
(***************************************************************************)
\* an entry of the table that is a Local entry with the editable flag set
EditableLocal(e) == DOMAIN e[2] = {"path", "editable"} /\ e[2].editable = TRUE

\* one forced toggle for each package of a list
CallsFor(names, flags) ==
    [i \in 1..Len(names) |-> <<names[i], flags[1], flags[2], flags[3]>>]

IsPrefix(s, t) == Len(s) <= Len(t) /\ \A i \in 1..Len(s) : s[i] = t[i]

C16_AllTogglesEditable ==
    (cli.mode \in AllModes /\ cli.stage \in {"loop", "returned"}) =>
        LET expected ==
                CallsFor(Names(SelectSeq(cli.loaded, EditableLocal)),
                         IF cli.args.force_pypi THEN <<FALSE, FALSE, TRUE>>
                                                ELSE <<FALSE, TRUE, FALSE>>)
        IN  /\ IsPrefix(cli.calls, expected)
            /\ cli.stage = "returned" =>
                   /\ cli.calls = expected
                   /\ \A i \in 1..Len(sources) : ~EditableLocal(sources[i])
                   /\ \A i \in 1..Len(cli.loaded) :
                          ~EditableLocal(cli.loaded[i]) =>
                              /\ sources_has(sources, cli.loaded[i][1])
                              /\ sources_get(sources, cli.loaded[i][1]) = cli.loaded[i][2]

\* 'all' with --pypi returned after the toggles of two packages
C16_Witness ==
    /\ cli.mode = "all_pypi"
    /\ cli.stage = "returned"
    /\ Len(cli.calls) = 2

\* 'all' without --pypi returned after a toggle, beside an entry that was not editable
C16_WitnessPublished ==
    /\ cli.mode = "all_published"
    /\ cli.stage = "returned"
    /\ Len(cli.calls) = 1
    /\ Len(cli.loaded) = 2

(***************************************************************************)
(* The lock refresh, the exit code, the shape of the entries, the frame.   *)
(***************************************************************************)
Count(seq, x) == Cardinality({i \in 1..Len(seq) : seq[i] = x})

UvEvents == {"uv_sync_ok", "uv_sync_failed"}
Refreshes(seq) == {i \in 1..Len(seq) : seq[i] \in UvEvents}
KindReports == {"status_source_path", "status_source_git", "status_source_other"}

\* C17: a call that wrote the configuration wrote it once, ran uv sync once, after the
\* write, and whether uv sync succeeded or failed (command failed, command missing) the
\* call returned with exit code 0, reported the kind of the entry (after the refresh
\* for a Local or Published entry; under force_pypi the index default is reported as
\* the entry is removed) and left the new entry in the table (no entry under
\* force_pypi); a call that wrote nothing ran no uv sync.
C17_RefreshFailureKeepsToggle ==
    pc = "done" =>
        IF Has(events, "write")
        THEN /\ Count(events, "write") = 1
             /\ Cardinality(Refreshes(events)) = 1
             /\ \A i \in Refreshes(events) : IndexOf(events, "write") < i
             /\ exit_code = 0
             /\ IF force_pypi
                THEN /\ Has(events, "status_pypi") \/ Has(events, "status_pypi_already")
                     /\ ~sources_has(sources, module_name)
                ELSE /\ events[Len(events)] \in KindReports
                     /\ events[Len(events) - 1] \in UvEvents
                     /\ events[Len(events)] = SourceStatus(new_source)
                     /\ sources_has(sources, module_name)
                     /\ sources_get(sources, module_name) = new_source
        ELSE Refreshes(events) = {}

\* a toggle wrote an entry, its uv sync failed, and it returned with the entry in place
C17_Witness ==
    /\ pc = "done"
    /\ ~force_pypi
    /\ Has(events, "write")
    /\ Has(events, "uv_sync_failed")
    /\ exit_code = 0
    /\ sources_has(sources, module_name)
    /\ sources_get(sources, module_name) = new_source

\* the run is over: the single toggle has ended, or main has returned or exited, or a
\* toggle of its loop has ended the process
RunEnded ==
    IF cli.mode = "single" THEN pc = "done"
    ELSE cli.stage \in {"exited", "returned"} \/ (pc = "done" /\ exit_code # 0)

\* the fatal conditions of the command line
ConfigMissing == ~config_exists
NoModuleArgument ==
    cli.mode # "single" /\ cli.args.module = <<>> /\ ~cli.args.remove_editable
    /\ cli.mode # "report"
Unresolvable ==
    pc = "done" /\ config_exists /\ ~force_pypi /\ github_url = <<>> /\ ~local_exists
FatalCondition == ConfigMissing \/ NoModuleArgument \/ Unresolvable

CloneFailed == Has(events, "clone_failed")
PublishedWithoutUrl == "git" \in DOMAIN new_source /\ new_source.git = <<>>

C18_FatalNonZero == (RunEnded /\ FatalCondition) => exit_code # 0

C18_WitnessNoConfig ==
    /\ cli.mode = "remove_editable"
    /\ cli.stage = "exited"
    /\ ConfigMissing
    /\ exit_code # 0

\* a single toggle whose clone failed has ended
C18_WitnessCloneFailed ==
    /\ cli.mode = "single"
    /\ RunEnded /\ ~FatalCondition /\ CloneFailed
    /\ exit_code # 0

\* every entry of a table is one of the two variants
AllVariants(srcs) == \A i \in 1..Len(srcs) : IsLocal(srcs[i][2]) \/ IsPublished(srcs[i][2])

\* C19: a package has at most one entry; a step that adds an entry or changes one
\* leaves in its place a Local entry {path, editable: true} without git or rev, or a
\* Published entry {git[, rev]} without path or editable, whatever the fields of the
\* entry it replaces; so a table whose entries are all of these variants stays so.
C19_OneVariant ==
    [][ /\ \A i, j \in 1..Len(sources') : sources'[i][1] = sources'[j][1] => i = j
        /\ \A i \in 1..Len(sources') :
               (~sources_has(sources, sources'[i][1])
                \/ sources_get(sources, sources'[i][1]) # sources'[i][2])
               => IsLocal(sources'[i][2]) \/ IsPublished(sources'[i][2])
        /\ AllVariants(sources) => AllVariants(sources') ]_vars

\* a Local entry was replaced by a Published entry pinned to a branch
C19_Witness ==
    /\ Toggled
    /\ IsLocal(current_source)
    /\ IsPublished(sources_get(sources, module_name))
    /\ "rev" \in DOMAIN sources_get(sources, module_name)

\* an entry with a path and no editable flag was replaced by a Published entry
C19_WitnessOddEntry ==
    /\ Toggled
    /\ DOMAIN current_source = {"path"}
    /\ IsPublished(sources_get(sources, module_name))

\* the keys of one table that are also keys of another, in the order of the first
KeysKept(srcs, others) == SelectSeq(Names(srcs), LAMBDA k : sources_has(others, k))

\* C20: a step of toggle_module_source(p, ...) changes at most the entry of p, under
\* every combination of the flags, force_pypi included: every other package has an
\* entry after the step iff it had one before, and the same one; and the keys that are
\* in the table before and after the step are in the same relative order.
C20_Frame ==
    [][ /\ \A q \in Packages :
               q # module_name' =>
                   /\ sources_has(sources', q) <=> sources_has(sources, q)
                   /\ sources_get(sources', q) = sources_get(sources, q)
        /\ KeysKept(sources', sources) = KeysKept(sources, sources') ]_vars

\* a toggle with force_pypi removed the entry of its package and another entry is left
C20_Witness ==
    /\ pc = "done"
    /\ force_pypi
    /\ Has(events, "status_pypi")
    /\ Len(sources) = 1
    /\ sources[1][1] # module_name

\* a toggle replaced the first of two entries by the other variant
C20_WitnessInPlace ==
    /\ Toggled
    /\ Len(sources) = 2
    /\ sources[1][1] = module_name
    /\ current_source # sources[1][2]
    /\ current_source # EmptySource

(***************************************************************************)
(* The shape check on its own.                                             *)
(***************************************************************************)
\* the URL is scheme://github.com/account/repo or scheme://github.com/account/repo.git
RepoShape(url) ==
    /\ Len(url) \in {6, 7}
    /\ url[1] \in {"https://", "http://"}
    /\ url[2] = "github.com"
    /\ url[3] = "/" /\ url[5] = "/"
    /\ url[4] \notin SlashAtoms \cup DotAtoms
    /\ url[6] \notin SlashAtoms \cup DotAtoms
    /\ Len(url) = 7 => url[7] = ".git"

\* the requests were for the manifest file names in their fixed order
ProbesInOrder == \A i \in 1..Len(events) : i <= Len(indicators) /\ events[i][1] = indicators[i]

\* every request but the last was answered 'not found', and the result is true iff the
\* last was answered; the three requests were all made only if none ended the call
ProbesByRule ==
    /\ Len(events) >= 1
    /\ \A i \in 1..(Len(events) - 1) : events[i][2] = "404"
    /\ repo_valid <=> events[Len(events)][2] = "ok"
    /\ events[Len(events)][2] = "404" => Len(events) = Len(indicators)

\* C21: check_github_repo_is_python_package requests pyproject.toml, setup.py and
\* setup.cfg in this order; it returns true at the first request that is answered and
\* makes no further request; 'not found' moves on to the next file name; any other
\* HTTP or transport error returns false at once with no further request; it returns
\* false when all three are 'not found', and, without a request, when the URL is not
\* scheme://github.com/account/repo[.git].
C21_ProbeOrder ==
    pc = "probe_done" =>
        /\ ProbesInOrder
        /\ IF RepoShape(github_url) THEN ProbesByRule
           ELSE ~repo_valid /\ events = <<>>

\* C21, the part that the code meets: the requests are made in the fixed order, true is
\* returned exactly when the last request made was answered, 'not found' moves on, a
\* transport error ends the call with false, three 'not found' give false.
C21_ProbesInOrderFirstHit ==
    pc = "probe_done" =>
        /\ ProbesInOrder
        /\ repo_valid <=> (events # <<>> /\ events[Len(events)][2] = "ok")
        /\ \A i \in 1..(Len(events) - 1) : events[i][2] \in {"404", "http_error"}
        /\ (events # <<>> /\ events[Len(events)][2] \in {"404", "http_error"})
               => Len(events) = Len(indicators)

(***************************************************************************)
(* The path of the checkout, the URL of a Published entry, the fatal ends. *)
(***************************************************************************)
\* the three candidate paths of the package of the call: the name as it is, with
\* underscores replaced by hyphens, with hyphens replaced by underscores
Candidates ==
    << PathOf(Root, module_name),
       PathOf(Root, Replace(module_name, "_", "-")),
       PathOf(Root, Replace(module_name, "-", "_")) >>

\* the first candidate that exists on disk, the first candidate if none does
FirstExisting(disk) ==
    IF \E i \in 1..3 : Candidates[i] \in disk
    THEN Candidates[CHOOSE i \in 1..3 :
                        Candidates[i] \in disk /\ \A j \in 1..(i - 1) : Candidates[j] \notin disk]
    ELSE Candidates[1]

\* the call has loaded the configuration and resolved the path of the checkout
PathResolved ==
    pc \in {"resolve_user", "resolve_pypi", "decide", "done"} /\ config_exists /\ ~force_pypi

\* C22: the path that toggle resolves is the first that exists among <root>/<name>,
\* <root>/<name with _ replaced by ->, <root>/<name with - replaced by _>, and
\* <root>/<name> when none exists, root being PYTHON_DEVELOPMENT_TOGGLE if set and
\* 'pypi' otherwise; a Local entry written by the toggle is {path: that path,
\* editable: true}.
C22_FirstExistingPath ==
    PathResolved =>
        /\ local_path = FirstExisting(fs)
        /\ (pc = "done" /\ Has(events, "status_source_path"))
               => sources_get(sources, module_name) = [path |-> local_path, editable |-> TRUE]

\* a Local entry was written with the third candidate, the only one on disk, under a
\* root set by the environment
C22_Witness ==
    /\ Toggled
    /\ env_toggle_dir # <<>>
    /\ Candidates[1] \notin fs /\ Candidates[2] \notin fs /\ Candidates[3] \in fs
    /\ Candidates[3] # Candidates[1]
    /\ sources_get(sources, module_name) = [path |-> Candidates[3], editable |-> TRUE]

\* the first and the second candidate are both on disk and the first was taken
C22_WitnessOrder ==
    /\ Toggled
    /\ Candidates[1] \in fs /\ Candidates[2] \in fs
    /\ Candidates[2] # Candidates[1]
    /\ local_exists
    /\ sources_get(sources, module_name) = [path |-> Candidates[1], editable |-> TRUE]

\* C23: every Published entry in the table that a toggle has written carries a
\* resolved URL: when the checkout exists, no URL was resolved and the decision is
\* Published, no entry {git: <no URL>} is persisted.
C23_PublishedHasUrl ==
    (pc = "done" /\ Has(events, "write")) =>
        \A i \in 1..Len(sources) :
            "git" \in DOMAIN sources[i][2] => sources[i][2].git # <<>>

\* C23, the part that the code meets: a Published entry written after a URL was
\* resolved carries that URL.
C23_ResolvedUrlWritten ==
    (Toggled /\ Has(events, "status_source_git") /\ github_url # <<>>) =>
        sources_get(sources, module_name).git = github_url

\* C24: a toggle that ends fatally leaves the configuration as it was: the table
\* changes only in the step that ends a call with exit code 0 after its write, so a
\* call that ends with a non-zero exit code (no URL and no checkout, checkout missing
\* without a validated URL to clone, clone failed) has written nothing.
C24_FatalLeavesConfig ==
    [][ /\ (sources' # sources \/ config_exists' # config_exists)
               => (pc' = "done" /\ exit_code' = 0 /\ Has(events', "write"))
        /\ (pc' = "done" /\ exit_code' # 0) => ~Has(events', "write") ]_vars

\* a toggle over a Published entry ended with a failed clone, the entry still in place
C24_Witness ==
    /\ pc = "done" /\ exit_code # 0
    /\ Has(events, "clone_failed")
    /\ IsPublished(current_source)
    /\ sources_get(sources, module_name) = current_source

\* a toggle over a Local entry ended because nothing could be resolved and the
\* checkout is missing, the entry still in place
C24_WitnessNoSource ==
    /\ pc = "done" /\ exit_code # 0
    /\ Has(events, "status_error_no_local_no_url")
    /\ IsLocal(current_source)
    /\ sources_get(sources, module_name) = current_source

(***************************************************************************)
(* A bulk run that a toggle ends.                                          *)
(***************************************************************************)
\* the names of the packages that were editable when the table was loaded, in its order
LoadedEditable == Names(SelectSeq(cli.loaded, EditableLocal))

\* a toggle of the loop of a bulk run has ended the process
BulkStopped ==
    /\ cli.mode \in {"remove_editable"} \cup AllModes
    /\ cli.stage = "loop"
    /\ pc = "done" /\ exit_code # 0

\* C25: a bulk run toggles the editable packages one at a time in the order of the
\* table; when the toggle of the k-th ends fatally the run makes no further step and
\* its exit code is not 0, each of the first k-1 packages has the new entry that its
\* toggle persisted, and the k-th and every later editable package has the Local entry
\* that was loaded.
C25_NoRollback ==
    /\ [](BulkStopped =>
            LET k == Len(cli.calls)
            IN  /\ k >= 1 /\ k <= Len(LoadedEditable)
                /\ \A i \in 1..k : cli.calls[i][1] = LoadedEditable[i]
                /\ module_name = LoadedEditable[k]
                /\ \A i \in 1..(k - 1) :
                       IF cli.mode = "all_pypi"
                       THEN ~sources_has(sources, LoadedEditable[i])
                       ELSE IsPublished(sources_get(sources, LoadedEditable[i]))
                /\ \A i \in k..Len(LoadedEditable) :
                       /\ sources_get(sources, LoadedEditable[i])
                              = sources_get(cli.loaded, LoadedEditable[i])
                       /\ IsLocal(sources_get(sources, LoadedEditable[i])))
    /\ [][~BulkStopped]_vars

\* the toggle of the second of two editable packages ended the run: the first has its
\* Published entry, the second its Local entry
C25_Witness ==
    /\ BulkStopped
    /\ Len(cli.calls) = 2
    /\ IsPublished(sources_get(sources, LoadedEditable[1]))
    /\ IsLocal(sources_get(sources, LoadedEditable[2]))

\* the toggle of the first of two editable packages ended the run: both are Local
C25_WitnessFirst ==
    /\ BulkStopped
    /\ Len(cli.calls) = 1
    /\ Len(LoadedEditable) = 2
    /\ IsLocal(sources_get(sources, LoadedEditable[1]))
    /\ IsLocal(sources_get(sources, LoadedEditable[2]))

====
